---- MODULE Spec2Model ----
(***************************************************************************)
(* Vatix prediction-market contract (contracts/market): market registry,   *)
(* position ledger, collateral deposits, oracle resolution and settlement. *)
(*                                                                         *)
(* Every public operation is one action.  A handler is an operator that    *)
(* returns an outcome: its result, the storage as the handler left it when *)
(* it returned (writes made before a late error included) and the log of   *)
(* the host calls it made, in order.  The host runs one call at a time and *)
(* commits the handler's writes only when the call returns Ok; an Err or a *)
(* panic ("Trap") discards them.                                           *)
(*                                                                         *)
(* Amounts are i128 in the source.  TLC's integers are 32 bits wide, so    *)
(* i128::MAX and the deposit ceiling are scaled down (I128_MAX,            *)
(* MAX_DEPOSIT_AMOUNT); their order, and the order of both with            *)
(* BASIS_POINTS, is the source's.                                          *)
(***************************************************************************)
EXTENDS Integers, Sequences, FiniteSets, TLC

VARIABLES
    markets,    \* persistent storage, (MARKETS, market_id) -> Market
    positions,  \* persistent storage, (POSITIONS, market_id, user) -> Position
    counter,    \* persistent storage, COUNTER (absent reads as 0)
    now,        \* env.ledger().timestamp()
    last        \* the call the host ran last: its arguments and its outcome

vars == <<markets, positions, counter, now, last>>

(* Bounds of the model *)

MaxMarkets == 2          \* successful initialize_market calls in Spec
LongRunMarkets == 66     \* successful initialize_market calls in SpecLongRun
MaxShares == 1           \* largest share count update_position is driven to
I128_MAX == 1000000      \* stands for i128::MAX
MAX_DEPOSIT_AMOUNT == 500000  \* stands for the 10^18 ceiling of deposit.rs
LargeShares == 1000      \* a share count whose product with a price leaves I128_MAX
MaxCreated == 2          \* successful initialize_market calls in SpecCreate
MaxTime == 1             \* the ledger time SpecCreate advances to
MaxIdLen == 3            \* bytes of a market id in SpecMessage

(* Program constants *)

BASIS_POINTS == 10000
ONE_YEAR_SECONDS == 31536000
MAX_QUESTION_LEN == 500
ID_TABLE_SIZE == 64      \* "m0" .. "m63" have an arm in initialize_market

(* Principals, keys and the inputs the operations are driven with *)

Admin == "admin"
Creators == {Admin, "alice"}
OracleKey == "oracle_key"
OtherKey == "other_key"
Token == "usdc"

None == [some |-> FALSE, value |-> FALSE]
Some(b) == [some |-> TRUE, value |-> b]

(* storage.rs *)

get_next_market_id(ctr) == ctr

set_market(mk, market_id, market) ==
    [k \in (DOMAIN mk) \cup {market_id} |-> IF k = market_id THEN market ELSE mk[k]]

has_market(mk, market_id) == market_id \in DOMAIN mk

\* A store keeping one balance per user, written under each of their keys
set_position_all_markets(ps, market_id, user, position) ==
    [k \in DOMAIN ps \cup {<<market_id, user>>} |->
        IF k[2] = user THEN position ELSE ps[k]]

set_position(ps, market_id, user, position) ==
    [k \in (DOMAIN ps) \cup {<<market_id, user>>} |->
        IF k = <<market_id, user>> THEN position ELSE ps[k]]

has_position(ps, market_id, user) == <<market_id, user>> \in DOMAIN ps

NewPosition(market_id, user) ==
    [market_id |-> market_id, user |-> user, yes_shares |-> 0, no_shares |-> 0,
     locked_collateral |-> 0, is_settled |-> FALSE]

get_position_or_default(ps, market_id, user) ==
    IF has_position(ps, market_id, user) THEN ps[<<market_id, user>>]
    ELSE NewPosition(market_id, user)

(* The outcome of a handler *)
Outcome(result, mk, ps, ctr, ret, id, log) ==
    [result |-> result, markets |-> mk, positions |-> ps, counter |-> ctr,
     ret |-> ret, id |-> id, log |-> log]


(* lib.rs: initialize_market *)

\* The match of lib.rs:93-159: an arm for 0..63, and "m0" for every other number.
MarketIdString(n) ==
    IF n \in 0..(ID_TABLE_SIZE - 1) THEN "m" \o ToString(n) ELSE "m0"

\* The validation rejecting an end time exactly one year ahead
validate_market_creation_year_exclusive(question_len, end_time, current_time) ==
    IF question_len = 0 THEN "InvalidQuestion"
    ELSE IF question_len >= MAX_QUESTION_LEN THEN "InvalidQuestion"
    ELSE IF end_time <= current_time THEN "InvalidTimestamp"
    ELSE IF end_time >= current_time + ONE_YEAR_SECONDS THEN "InvalidTimestamp"
    ELSE "Ok"

\* validation.rs: the question is modelled by its length.
validate_market_creation(question_len, end_time, current_time) ==
    IF question_len = 0 THEN "InvalidQuestion"
    ELSE IF question_len >= MAX_QUESTION_LEN THEN "InvalidQuestion"
    ELSE IF end_time <= current_time THEN "InvalidTimestamp"
    ELSE IF end_time > current_time + ONE_YEAR_SECONDS THEN "InvalidTimestamp"
    ELSE "Ok"

\* A newly created market whose result is already set
new_market_with_result(market_id, question_len, end_time, oracle_pubkey, creator, current_time, collateral_token) ==
    [id |-> market_id, question |-> question_len, end_time |-> end_time,
     oracle_pubkey |-> oracle_pubkey, status |-> "Active", result |-> Some(FALSE),
     creator |-> creator, created_at |-> current_time,
     collateral_token |-> collateral_token]

\* The Market struct of lib.rs:162-172, with the nine fields of types.rs:14-25;
\* it carries no total_collateral.
new_market(market_id, question_len, end_time, oracle_pubkey, creator, current_time, collateral_token) ==
    [id |-> market_id, question |-> question_len, end_time |-> end_time,
     oracle_pubkey |-> oracle_pubkey, status |-> "Active", result |-> None,
     creator |-> creator, created_at |-> current_time,
     collateral_token |-> collateral_token]

\* initialize_market validating its inputs before it looks at the creator
initialize_market_validates_first(mk, ps, ctr, current_time, creator, question_len, end_time, oracle_pubkey, collateral_token) ==
    LET v == validate_market_creation(question_len, end_time, current_time) IN
    IF v # "Ok"
    THEN Outcome(v, mk, ps, ctr, 0, "", << >>)
    ELSE IF creator # Admin
    THEN Outcome("Unauthorized", mk, ps, ctr, 0, "", <<"get_admin">>)
    ELSE LET market_id_num == get_next_market_id(ctr) + 1
             market_id == MarketIdString(market_id_num)
             market == new_market(market_id, question_len, end_time,
                                  oracle_pubkey, creator, current_time,
                                  collateral_token)
         IN Outcome("Ok", set_market(mk, market_id, market), ps, market_id_num,
                    market_id_num, market_id,
                    <<"get_admin", "increment_market_id", "set_market",
                      "emit_market_created">>)

initialize_market(mk, ps, ctr, current_time, creator, question_len, end_time, oracle_pubkey, collateral_token) ==
    IF creator # Admin
    THEN Outcome("Unauthorized", mk, ps, ctr, 0, "", <<"get_admin">>)
    ELSE LET v == validate_market_creation(question_len, end_time, current_time) IN
         IF v # "Ok"
         THEN Outcome(v, mk, ps, ctr, 0, "", <<"get_admin">>)
         ELSE LET market_id_num == get_next_market_id(ctr) + 1
                  market_id == MarketIdString(market_id_num)
                  market == new_market(market_id, question_len, end_time,
                                       oracle_pubkey, creator, current_time,
                                       collateral_token)
              IN Outcome("Ok", set_market(mk, market_id, market), ps, market_id_num,
                         market_id_num, market_id,
                         <<"get_admin", "increment_market_id", "set_market",
                           "emit_market_created">>)

(* deposit.rs: deposit_collateral *)

\* events.rs: the CollateralDeposited event, named with the user, the market
\* id, the amount and the new_total it carries
emit_collateral_deposited(user, market_id, amount, new_total) ==
    "emit_collateral_deposited(" \o user \o "," \o market_id \o ","
        \o ToString(amount) \o "," \o ToString(new_total) \o ")"

\* The amount check without its ceiling
validate_deposit_amount_no_ceiling(amount) ==
    IF amount <= 0 THEN "InvalidQuantity" ELSE "Ok"

\* deposit.rs:68-77
validate_deposit_amount(amount) ==
    IF amount <= 0 THEN "InvalidQuantity"
    ELSE IF amount > MAX_DEPOSIT_AMOUNT THEN "InvalidQuantity"
    ELSE "Ok"

\* The status check letting a Canceled market through
validate_deposit_status_canceled_ok(status) ==
    IF status = "Resolved" THEN "MarketNotActive" ELSE "Ok"

\* deposit.rs:85-92
validate_deposit_status(status) ==
    IF status = "Active" THEN "Ok" ELSE "MarketNotActive"

\* deposit.rs:135 reads market.total_collateral, a field the Market of
\* types.rs does not have; a market that initialize_market stored holds none, and
\* the deposit starts from 0, as the markets of deposit.rs:170-183 do.
market_total_collateral(market) ==
    IF "total_collateral" \in DOMAIN market THEN market.total_collateral ELSE 0

\* deposit.rs:135-140: the market with its total_collateral set
with_total_collateral(market, total) ==
    [id |-> market.id, question |-> market.question, end_time |-> market.end_time,
     oracle_pubkey |-> market.oracle_pubkey, status |-> market.status,
     result |-> market.result, creator |-> market.creator,
     created_at |-> market.created_at, collateral_token |-> market.collateral_token,
     total_collateral |-> total]

\* The new balance set to the amount instead of raised by it
add_collateral_overwrites(balance, amount) == amount

\* deposit.rs:127-128 and 135-136: the sum checked_add computes
add_collateral(balance, amount) == balance + amount

\* deposit_collateral with the ledger writes moved before the token transfer
deposit_collateral_writes_first(mk, ps, ctr, user, market_id, amount, auth, transfer_ok) ==
    IF ~auth
    THEN Outcome("Trap", mk, ps, ctr, 0, "", <<"require_auth">>)
    ELSE IF validate_deposit_amount(amount) # "Ok"
    THEN Outcome(validate_deposit_amount(amount), mk, ps, ctr, 0, "",
                 <<"require_auth">>)
    ELSE IF ~has_market(mk, market_id)
    THEN Outcome("MarketNotFound", mk, ps, ctr, 0, "", <<"require_auth", "get_market">>)
    ELSE IF validate_deposit_status(mk[market_id].status) # "Ok"
    THEN Outcome(validate_deposit_status(mk[market_id].status), mk, ps, ctr, 0, "",
                 <<"require_auth", "get_market">>)
    ELSE LET position == get_position_or_default(ps, market_id, user)
             new_locked == add_collateral(position.locked_collateral, amount)
             position1 == [position EXCEPT !.locked_collateral = new_locked]
             ps1 == set_position(ps, market_id, user, position1)
             new_total == add_collateral(market_total_collateral(mk[market_id]), amount)
             market1 == with_total_collateral(mk[market_id], new_total)
         IN IF new_locked > I128_MAX
            THEN Outcome("ArithmeticOverflow", mk, ps, ctr, 0, "",
                         <<"require_auth", "get_market", "get_position">>)
            ELSE IF new_total > I128_MAX
            THEN Outcome("ArithmeticOverflow", mk, ps1, ctr, 0, "",
                         <<"require_auth", "get_market", "get_position",
                           "set_position">>)
            ELSE IF ~transfer_ok
            THEN Outcome("Trap", set_market(mk, market_id, market1), ps1, ctr, 0, "",
                         <<"require_auth", "get_market", "get_position",
                           "set_position", "set_market", "transfer">>)
            ELSE Outcome("Ok", set_market(mk, market_id, market1), ps1, ctr,
                         new_locked, "",
                         <<"require_auth", "get_market", "get_position",
                           "set_position", "set_market", "transfer",
                           emit_collateral_deposited(user, market_id, amount, new_locked)>>)

\* An addition wrapping around the integer range
wrapping_add(a, b) ==
    IF a + b > I128_MAX THEN a + b - 2 * (I128_MAX + 1) ELSE a + b

\* deposit_collateral adding with wrapping_add and no overflow check
deposit_collateral_wrapping(mk, ps, ctr, user, market_id, amount, auth, transfer_ok) ==
    IF ~auth
    THEN Outcome("Trap", mk, ps, ctr, 0, "", <<"require_auth">>)
    ELSE IF validate_deposit_amount(amount) # "Ok"
    THEN Outcome(validate_deposit_amount(amount), mk, ps, ctr, 0, "", <<"require_auth">>)
    ELSE IF ~has_market(mk, market_id)
    THEN Outcome("MarketNotFound", mk, ps, ctr, 0, "", <<"require_auth", "get_market">>)
    ELSE IF validate_deposit_status(mk[market_id].status) # "Ok"
    THEN Outcome(validate_deposit_status(mk[market_id].status), mk, ps, ctr, 0, "",
                 <<"require_auth", "get_market">>)
    ELSE IF ~transfer_ok
    THEN Outcome("Trap", mk, ps, ctr, 0, "", <<"require_auth", "get_market", "transfer">>)
    ELSE LET position == get_position_or_default(ps, market_id, user)
             new_locked == wrapping_add(position.locked_collateral, amount)
             position1 == [position EXCEPT !.locked_collateral = new_locked]
             new_total == wrapping_add(market_total_collateral(mk[market_id]), amount)
             market1 == with_total_collateral(mk[market_id], new_total)
         IN Outcome("Ok", set_market(mk, market_id, market1),
                    set_position(ps, market_id, user, position1), ctr,
                    new_locked, "",
                    <<"require_auth", "get_market", "transfer", "get_position",
                      "set_position", "set_market", emit_collateral_deposited(user, market_id, amount, new_locked)>>)

\* deposit_collateral reporting the market's total in the event
deposit_collateral_emits_market_total(mk, ps, ctr, user, market_id, amount, auth, transfer_ok) ==
    IF ~auth
    THEN Outcome("Trap", mk, ps, ctr, 0, "", <<"require_auth">>)
    ELSE IF validate_deposit_amount(amount) # "Ok"
    THEN Outcome(validate_deposit_amount(amount), mk, ps, ctr, 0, "",
                 <<"require_auth">>)
    ELSE IF ~has_market(mk, market_id)
    THEN Outcome("MarketNotFound", mk, ps, ctr, 0, "", <<"require_auth", "get_market">>)
    ELSE IF validate_deposit_status(mk[market_id].status) # "Ok"
    THEN Outcome(validate_deposit_status(mk[market_id].status), mk, ps, ctr, 0, "",
                 <<"require_auth", "get_market">>)
    ELSE IF ~transfer_ok
    THEN Outcome("Trap", mk, ps, ctr, 0, "", <<"require_auth", "get_market", "transfer">>)
    ELSE LET position == get_position_or_default(ps, market_id, user)
             new_locked == add_collateral(position.locked_collateral, amount)
             position1 == [position EXCEPT !.locked_collateral = new_locked]
             ps1 == set_position(ps, market_id, user, position1)
             new_total == add_collateral(market_total_collateral(mk[market_id]), amount)
             market1 == with_total_collateral(mk[market_id], new_total)
         IN IF new_locked > I128_MAX
            THEN Outcome("ArithmeticOverflow", mk, ps, ctr, 0, "",
                         <<"require_auth", "get_market", "transfer", "get_position">>)
            ELSE IF new_total > I128_MAX
            THEN Outcome("ArithmeticOverflow", mk, ps1, ctr, 0, "",
                         <<"require_auth", "get_market", "transfer", "get_position",
                           "set_position">>)
            ELSE Outcome("Ok", set_market(mk, market_id, market1), ps1, ctr,
                         new_locked, "",
                         <<"require_auth", "get_market", "transfer", "get_position",
                           "set_position", "set_market", emit_collateral_deposited(user, market_id, amount, new_total)>>)

deposit_collateral(mk, ps, ctr, user, market_id, amount, auth, transfer_ok) ==
    IF ~auth
    THEN Outcome("Trap", mk, ps, ctr, 0, "", <<"require_auth">>)
    ELSE IF validate_deposit_amount(amount) # "Ok"
    THEN Outcome(validate_deposit_amount(amount), mk, ps, ctr, 0, "",
                 <<"require_auth">>)
    ELSE IF ~has_market(mk, market_id)
    THEN Outcome("MarketNotFound", mk, ps, ctr, 0, "", <<"require_auth", "get_market">>)
    ELSE IF validate_deposit_status(mk[market_id].status) # "Ok"
    THEN Outcome(validate_deposit_status(mk[market_id].status), mk, ps, ctr, 0, "",
                 <<"require_auth", "get_market">>)
    ELSE IF ~transfer_ok
    THEN Outcome("Trap", mk, ps, ctr, 0, "", <<"require_auth", "get_market", "transfer">>)
    ELSE LET position == get_position_or_default(ps, market_id, user)
             new_locked == add_collateral(position.locked_collateral, amount)
             position1 == [position EXCEPT !.locked_collateral = new_locked]
             ps1 == set_position(ps, market_id, user, position1)
             new_total == add_collateral(market_total_collateral(mk[market_id]), amount)
             market1 == with_total_collateral(mk[market_id], new_total)
         IN IF new_locked > I128_MAX
            THEN Outcome("ArithmeticOverflow", mk, ps, ctr, 0, "",
                         <<"require_auth", "get_market", "transfer", "get_position">>)
            ELSE IF new_total > I128_MAX
            THEN Outcome("ArithmeticOverflow", mk, ps1, ctr, 0, "",
                         <<"require_auth", "get_market", "transfer", "get_position",
                           "set_position">>)
            ELSE Outcome("Ok", set_market(mk, market_id, market1), ps1, ctr,
                         new_locked, "",
                         <<"require_auth", "get_market", "transfer", "get_position",
                           "set_position", "set_market", emit_collateral_deposited(user, market_id, amount, new_locked)>>)

(* positions.rs *)

\* A division rounding to the nearest integer
checked_div_nearest(a, b) == (a + b \div 2) \div b

\* A division rounding up
checked_div_round_up(a, b) == (a + b - 1) \div b

\* i128 division truncates toward zero
checked_div(a, b) == IF a >= 0 THEN a \div b ELSE -((-a) \div b)

\* checked_mul(..).unwrap() panics when the product leaves the i128 range
mul_overflows(a, b) == a * b > I128_MAX \/ a * b < -I128_MAX - 1

\* The formula charging the NO side the YES price
calculate_locked_collateral_same_price(yes_shares, no_shares, market_price) ==
    IF yes_shares = no_shares THEN 0
    ELSE IF yes_shares > no_shares
    THEN checked_div((yes_shares - no_shares) * market_price, BASIS_POINTS)
    ELSE checked_div((no_shares - yes_shares) * market_price, BASIS_POINTS)

\* The formula charging the gross holding of the larger side
calculate_locked_collateral_gross(yes_shares, no_shares, market_price) ==
    IF yes_shares >= no_shares
    THEN checked_div(yes_shares * market_price, BASIS_POINTS)
    ELSE checked_div(no_shares * (BASIS_POINTS - market_price), BASIS_POINTS)

calculate_locked_collateral(yes_shares, no_shares, market_price) ==
    IF yes_shares = no_shares THEN 0
    ELSE IF yes_shares > no_shares
    THEN LET net_yes == yes_shares - no_shares
         IN checked_div(net_yes * market_price, BASIS_POINTS)
    ELSE LET net_no == no_shares - yes_shares
             inverse_price == BASIS_POINTS - market_price
         IN checked_div(net_no * inverse_price, BASIS_POINTS)

\* the inputs on which calculate_locked_collateral unwraps a None
calculate_locked_collateral_panics(yes_shares, no_shares, market_price) ==
    IF yes_shares = no_shares THEN FALSE
    ELSE IF yes_shares > no_shares
    THEN mul_overflows(yes_shares - no_shares, market_price)
    ELSE mul_overflows(no_shares - yes_shares, BASIS_POINTS - market_price)

\* The validation looking at the YES side only
validate_position_change_yes_only(current_position, yes_delta, no_delta) ==
    LET new_yes == current_position.yes_shares + yes_delta
    IN IF new_yes < 0 THEN "InvalidShareAmount" ELSE "Ok"

validate_position_change(current_position, yes_delta, no_delta) ==
    LET new_yes == current_position.yes_shares + yes_delta
        new_no == current_position.no_shares + no_delta
    IN IF new_yes < 0 \/ new_no < 0 THEN "InvalidShareAmount" ELSE "Ok"

\* update_position computing the locked collateral from the shares held
\* before the deltas are applied
update_position_stale_locked(mk, ps, ctr, market_id, user, yes_delta, no_delta, market_price) ==
    LET position == get_position_or_default(ps, market_id, user)
        v == validate_position_change(position, yes_delta, no_delta)
        position1 == [position EXCEPT
                        !.yes_shares = position.yes_shares + yes_delta,
                        !.no_shares = position.no_shares + no_delta,
                        !.locked_collateral =
                            calculate_locked_collateral(position.yes_shares,
                                                        position.no_shares,
                                                        market_price)]
    IN IF v # "Ok"
       THEN Outcome(v, mk, ps, ctr, 0, "", <<"get_position">>)
       ELSE IF calculate_locked_collateral_panics(position.yes_shares,
                                                  position.no_shares, market_price)
       THEN Outcome("Trap", mk, ps, ctr, 0, "", <<"get_position">>)
       ELSE Outcome("Ok", mk, set_position(ps, market_id, user, position1), ctr,
                    position1.locked_collateral, "", <<"get_position", "set_position">>)

update_position(mk, ps, ctr, market_id, user, yes_delta, no_delta, market_price) ==
    LET position == get_position_or_default(ps, market_id, user)
        v == validate_position_change(position, yes_delta, no_delta)
        new_yes == position.yes_shares + yes_delta
        new_no == position.no_shares + no_delta
        position1 == [position EXCEPT
                        !.yes_shares = new_yes,
                        !.no_shares = new_no,
                        !.locked_collateral =
                            calculate_locked_collateral(new_yes, new_no, market_price)]
    IN IF v # "Ok"
       THEN Outcome(v, mk, ps, ctr, 0, "", <<"get_position">>)
       ELSE IF calculate_locked_collateral_panics(new_yes, new_no, market_price)
       THEN Outcome("Trap", mk, ps, ctr, 0, "", <<"get_position">>)
       ELSE Outcome("Ok", mk, set_position(ps, market_id, user, position1), ctr,
                    position1.locked_collateral, "", <<"get_position", "set_position">>)

\* can_settle looking at the market only
can_settle_ignores_settled(position, market) ==
    market.status = "Resolved"

can_settle(position, market) ==
    market.status = "Resolved" /\ ~position.is_settled

(* settlement.rs *)

\* The payout counting the shares of both sides
calculate_payout_both_sides(position, outcome) ==
    position.yes_shares + position.no_shares

calculate_payout(position, outcome) ==
    IF outcome THEN position.yes_shares ELSE position.no_shares

validate_settlement_eligibility(position, market) ==
    IF market.status # "Resolved" THEN "MarketNotResolved"
    ELSE IF position.is_settled THEN "PositionAlreadySettled"
    ELSE "Ok"

\* The settlement run without the eligibility check
execute_settlement_unchecked(position, market) ==
    IF ~market.result.some
    THEN [result |-> "MarketNotResolved", payout |-> 0, position |-> position]
    ELSE [result |-> "Ok",
          payout |-> calculate_payout(position, market.result.value),
          position |-> [position EXCEPT !.is_settled = TRUE]]

\* The settlement emptying the position it settles
execute_settlement_clears_shares(position, market) ==
    LET v == validate_settlement_eligibility(position, market) IN
    IF v # "Ok" THEN [result |-> v, payout |-> 0, position |-> position]
    ELSE IF ~market.result.some
    THEN [result |-> "MarketNotResolved", payout |-> 0, position |-> position]
    ELSE [result |-> "Ok",
          payout |-> calculate_payout(position, market.result.value),
          position |-> [position EXCEPT !.is_settled = TRUE, !.yes_shares = 0,
                                        !.no_shares = 0, !.locked_collateral = 0]]

\* the result, the payout and the position as execute_settlement leaves it
execute_settlement(position, market) ==
    LET v == validate_settlement_eligibility(position, market) IN
    IF v # "Ok" THEN [result |-> v, payout |-> 0, position |-> position]
    ELSE IF ~market.result.some
    THEN [result |-> "MarketNotResolved", payout |-> 0, position |-> position]
    ELSE [result |-> "Ok",
          payout |-> calculate_payout(position, market.result.value),
          position |-> [position EXCEPT !.is_settled = TRUE]]

\* The preview reporting 0 where there is no result
calculate_potential_payout_or_zero(position, market) ==
    IF market.result.some
    THEN [some |-> TRUE, value |-> calculate_payout(position, market.result.value)]
    ELSE [some |-> TRUE, value |-> 0]

calculate_potential_payout(position, market) ==
    IF market.result.some
    THEN [some |-> TRUE, value |-> calculate_payout(position, market.result.value)]
    ELSE [some |-> FALSE, value |-> 0]

\* settle(market_id, user): the entry point that loads the market and the
\* position, runs execute_settlement and persists the position.
settle(mk, ps, ctr, market_id, user) ==
    IF ~has_market(mk, market_id) \/ mk[market_id].status # "Resolved"
    THEN Outcome("MarketNotResolved", mk, ps, ctr, 0, "", <<"get_market">>)
    ELSE IF ~has_position(ps, market_id, user)
    THEN Outcome("NoPositionFound", mk, ps, ctr, 0, "", <<"get_market", "get_position">>)
    ELSE LET r == execute_settlement(ps[<<market_id, user>>], mk[market_id]) IN
         IF r.result # "Ok"
         THEN Outcome(r.result, mk, ps, ctr, 0, "", <<"get_market", "get_position">>)
         ELSE Outcome("Ok", mk, set_position(ps, market_id, user, r.position), ctr,
                      r.payout, "",
                      <<"get_market", "get_position", "set_position",
                        "emit_position_settled">>)

(* oracle.rs *)

\* keccak256(market_id bytes || outcome byte): the hash is taken as
\* collision-free, so the message is the byte string it is computed from.
construct_oracle_message(market_id, outcome) ==
    <<market_id, IF outcome THEN 1 ELSE 0>>

\* keccak256 taken as collision-free: the digest determines the bytes hashed
keccak256(bytes) == [keccak256 |-> bytes]

\* The message appending the outcome byte for YES only
construct_oracle_message_bytes_yes_only(market_id_bytes, outcome) ==
    keccak256(IF outcome THEN market_id_bytes \o <<1>> ELSE market_id_bytes)

\* construct_oracle_message on the bytes of the market id: the id's bytes
\* followed by the outcome byte, 1 for YES and 0 for NO, hashed
construct_oracle_message_bytes(market_id_bytes, outcome) ==
    keccak256(market_id_bytes \o <<IF outcome THEN 1 ELSE 0>>)

\* an Ed25519 signature is the pair of the key that signed and what it signed
Sign(key, message) == [signer |-> key, message |-> message]
NoSignature == [signer |-> "", message |-> <<"", 0>>]

ed25519_verify(pubkey, message, signature) ==
    signature.signer = pubkey /\ signature.message = message

\* The verification under the key the signature was made with, whatever key
\* the market registered
verify_oracle_signature_any_signer(market_id, outcome, signature, oracle_pubkey) ==
    IF signature.message = construct_oracle_message(market_id, outcome)
    THEN "Ok" ELSE "Trap"

\* Ok when the signature verifies; env.crypto().ed25519_verify panics otherwise
verify_oracle_signature(market_id, outcome, signature, oracle_pubkey) ==
    IF ed25519_verify(oracle_pubkey, construct_oracle_message(market_id, outcome),
                      signature)
    THEN "Ok" ELSE "Trap"

\* events.rs: the MarketResolved event, named with the outcome it carries
emit_market_resolved(outcome) ==
    "emit_market_resolved(" \o (IF outcome THEN "true" ELSE "false") \o ")"

\* resolve_market verifying the signature before it looks at the status
resolve_market_verifies_first(mk, ps, ctr, market_id, outcome, signature) ==
    IF ~has_market(mk, market_id)
    THEN Outcome("MarketNotFound", mk, ps, ctr, 0, "", <<"get_market">>)
    ELSE LET v == verify_oracle_signature(market_id, outcome, signature,
                                          mk[market_id].oracle_pubkey)
             market1 == [mk[market_id] EXCEPT !.status = "Resolved",
                                               !.result = Some(outcome)]
         IN IF v # "Ok"
            THEN Outcome(v, mk, ps, ctr, 0, "", <<"get_market", "ed25519_verify">>)
            ELSE IF mk[market_id].status = "Resolved"
            THEN Outcome("MarketAlreadyResolved", mk, ps, ctr, 0, "",
                         <<"get_market", "ed25519_verify">>)
            ELSE IF mk[market_id].status # "Active"
            THEN Outcome("MarketNotActive", mk, ps, ctr, 0, "",
                         <<"get_market", "ed25519_verify">>)
            ELSE Outcome("Ok", set_market(mk, market_id, market1), ps, ctr, 0, "",
                         <<"get_market", "ed25519_verify", "set_market",
                           emit_market_resolved(outcome)>>)

\* resolve_market(market_id, outcome, signature)
resolve_market(mk, ps, ctr, market_id, outcome, signature) ==
    IF ~has_market(mk, market_id)
    THEN Outcome("MarketNotFound", mk, ps, ctr, 0, "", <<"get_market">>)
    ELSE IF mk[market_id].status = "Resolved"
    THEN Outcome("MarketAlreadyResolved", mk, ps, ctr, 0, "", <<"get_market">>)
    ELSE IF mk[market_id].status # "Active"
    THEN Outcome("MarketNotActive", mk, ps, ctr, 0, "", <<"get_market">>)
    ELSE LET v == verify_oracle_signature(market_id, outcome, signature,
                                          mk[market_id].oracle_pubkey)
             market1 == [mk[market_id] EXCEPT !.status = "Resolved",
                                               !.result = Some(outcome)]
         IN IF v # "Ok"
            THEN Outcome(v, mk, ps, ctr, 0, "", <<"get_market", "ed25519_verify">>)
            ELSE Outcome("Ok", set_market(mk, market_id, market1), ps, ctr, 0, "",
                         <<"get_market", "ed25519_verify", "set_market",
                           emit_market_resolved(outcome)>>)

\* the Active -> Canceled transition of the market state machine
cancel_market(mk, ps, ctr, market_id) ==
    IF ~has_market(mk, market_id)
    THEN Outcome("MarketNotFound", mk, ps, ctr, 0, "", <<"get_market">>)
    ELSE IF mk[market_id].status # "Active"
    THEN Outcome("MarketNotActive", mk, ps, ctr, 0, "", <<"get_market">>)
    ELSE Outcome("Ok",
                 set_market(mk, market_id, [mk[market_id] EXCEPT !.status = "Canceled"]),
                 ps, ctr, 0, "", <<"get_market", "set_market">>)

(* The calls the model makes *)

SpecIds == {"m1", "nonexistent"}
Amounts == {-1, 0, MAX_DEPOSIT_AMOUNT, MAX_DEPOSIT_AMOUNT + 1}
\* <<authorized by the user, the token transfer succeeds>>
DepositEnvs == {<<TRUE, TRUE>>, <<FALSE, TRUE>>, <<TRUE, FALSE>>}
Deltas == {<<1, 0>>, <<0, 1>>, <<-1, 0>>, <<0, -1>>}
Prices == {5000, BASIS_POINTS}
\* prices inside and outside 0..BASIS_POINTS; update_position takes any i128
AnyPrices == {-BASIS_POINTS, 0, 6000, BASIS_POINTS, 2 * BASIS_POINTS}
\* the arguments calculate_locked_collateral is applied to
FormulaShares == {0, 1, 30, 70, 100, LargeShares}
\* share deltas large enough for net * price to leave the integer range
LargeDeltas ==
    {<<LargeShares, 0>>, <<0, LargeShares>>, <<-LargeShares, 0>>, <<0, -LargeShares>>}
OverflowPrices == {0, 100, 5000, BASIS_POINTS}
\* bytes a market id is made of: NUL, the two outcome bytes' values, "1", "m"
IdBytes == {0, 1, 49, 109}
RECURSIVE BytesUpTo(_)
BytesUpTo(n) ==
    IF n = 0 THEN {<< >>}
    ELSE LET shorter == BytesUpTo(n - 1)
         IN shorter \cup {Append(b, x) : b \in {c \in shorter : Len(c) = n - 1}, x \in IdBytes}
MessageIds == BytesUpTo(MaxIdLen)
FormulaPrices ==
    {-1, 0, 1, 5000, 6000, BASIS_POINTS - 1, BASIS_POINTS, BASIS_POINTS + 1}
QuestionLens == {0, 1, MAX_QUESTION_LEN}
EndTimes(t) == {t, t + 1}
\* the lengths and end times on both sides of every bound of validation.rs
CreateQuestionLens == {0, 1, MAX_QUESTION_LEN - 1, MAX_QUESTION_LEN}
CreateEndTimes(t) ==
    {t, t + 1, t + ONE_YEAR_SECONDS, t + ONE_YEAR_SECONDS + 1}
        \cup (IF t > 0 THEN {t - 1} ELSE {})
SignersOf(market_id, outcome) ==
    {Sign(OracleKey, construct_oracle_message(market_id, outcome)),
     Sign(OracleKey, construct_oracle_message(market_id, ~outcome)),
     Sign(OtherKey, construct_oracle_message(market_id, outcome))}

NoCall ==
    [op |-> "none", user |-> "", mid |-> "", amount |-> 0, yes_delta |-> 0,
     no_delta |-> 0, yes_shares |-> 0, no_shares |-> 0, price |-> 0,
     outcome |-> FALSE, sig |-> NoSignature,
     auth |-> TRUE, transfer_ok |-> TRUE, question |-> 0, end_time |-> 0,
     id_bytes |-> << >>, message |-> keccak256(<< >>),
     result |-> "", ret |-> 0, log |-> << >>]

\* The host runs the call: the handler's writes are committed when it returns
\* Ok and discarded when it returns an error or panics.
HostInvoke(call, o) ==
    /\ markets' = (IF o.result = "Ok" THEN o.markets ELSE markets)
    /\ positions' = (IF o.result = "Ok" THEN o.positions ELSE positions)
    /\ counter' = (IF o.result = "Ok" THEN o.counter ELSE counter)
    /\ now' = now
    /\ last' = [call EXCEPT !.result = o.result, !.ret = o.ret, !.log = o.log,
                            !.mid = IF o.id # "" THEN o.id ELSE call.mid]

Init ==
    /\ markets = << >>
    /\ positions = << >>
    /\ counter = 0
    /\ now = 0
    /\ last = NoCall

\* The ledger closes and the next one has a later timestamp.
AdvanceLedger(max) ==
    /\ now < max
    /\ now' = now + 1
    /\ last' = [NoCall EXCEPT !.op = "advance_ledger"]
    /\ UNCHANGED <<markets, positions, counter>>

\* auth: whether the address passed as creator authorized the call.  The
\* handler receives the address only and never asks the host for its
\* authorization, so auth is recorded with the call and not passed on.
InitializeMarket(cap, creators, lens, ends, auths) ==
    /\ counter < cap
    /\ \E creator \in creators, q \in lens, e \in ends, auth \in auths :
         HostInvoke([NoCall EXCEPT !.op = "initialize_market", !.user = creator,
                                   !.question = q, !.end_time = e, !.auth = auth],
                    initialize_market(markets, positions, counter, now, creator, q, e,
                                      OracleKey, Token))

\* The deposit run without the host's rollback: what the handler wrote before
\* it failed stays in storage.
DepositWithoutRollback(users, ids, amounts) ==
    \E user \in users, market_id \in ids, amount \in amounts, env \in DepositEnvs :
        LET o == deposit_collateral(markets, positions, counter, user, market_id,
                                    amount, env[1], env[2])
        IN /\ markets' = o.markets
           /\ positions' = o.positions
           /\ counter' = o.counter
           /\ now' = now
           /\ last' = [NoCall EXCEPT !.op = "deposit_collateral", !.user = user,
                                     !.mid = market_id, !.amount = amount,
                                     !.auth = env[1], !.transfer_ok = env[2],
                                     !.result = o.result, !.ret = o.ret,
                                     !.log = o.log]

Deposit(users, ids, amounts) ==
    \E user \in users, market_id \in ids, amount \in amounts, env \in DepositEnvs :
        HostInvoke([NoCall EXCEPT !.op = "deposit_collateral", !.user = user,
                                  !.mid = market_id, !.amount = amount,
                                  !.auth = env[1], !.transfer_ok = env[2]],
                   deposit_collateral(markets, positions, counter, user, market_id,
                                      amount, env[1], env[2]))

\* update_position with the deltas drawn from a given set, the shares kept
\* within cap
UpdatePositionBy(users, ids, deltas, prices, cap) ==
    \E user \in users, market_id \in ids, d \in deltas, price \in prices :
        /\ LET position == get_position_or_default(positions, market_id, user)
           IN /\ position.yes_shares + d[1] <= cap
              /\ position.no_shares + d[2] <= cap
        /\ HostInvoke([NoCall EXCEPT !.op = "update_position", !.user = user,
                                     !.mid = market_id, !.yes_delta = d[1],
                                     !.no_delta = d[2], !.price = price],
                      update_position(markets, positions, counter, market_id, user,
                                      d[1], d[2], price))

UpdatePosition(users, ids, prices) ==
    \E user \in users, market_id \in ids, d \in Deltas, price \in prices :
        /\ LET position == get_position_or_default(positions, market_id, user)
           IN /\ position.yes_shares + d[1] <= MaxShares
              /\ position.no_shares + d[2] <= MaxShares
        /\ HostInvoke([NoCall EXCEPT !.op = "update_position", !.user = user,
                                     !.mid = market_id, !.yes_delta = d[1],
                                     !.no_delta = d[2], !.price = price],
                      update_position(markets, positions, counter, market_id, user,
                                      d[1], d[2], price))

ResolveMarket(ids) ==
    \E market_id \in ids, outcome \in BOOLEAN :
        \E signature \in SignersOf(market_id, outcome) :
            HostInvoke([NoCall EXCEPT !.op = "resolve_market", !.mid = market_id,
                                      !.outcome = outcome, !.sig = signature],
                       resolve_market(markets, positions, counter, market_id, outcome,
                                      signature))

CancelMarket(ids) ==
    \E market_id \in ids :
        HostInvoke([NoCall EXCEPT !.op = "cancel_market", !.mid = market_id],
                   cancel_market(markets, positions, counter, market_id))

Settle(users, ids) ==
    \E user \in users, market_id \in ids :
        HostInvoke([NoCall EXCEPT !.op = "settle", !.user = user, !.mid = market_id],
                   settle(markets, positions, counter, market_id, user))

Next ==
    \/ InitializeMarket(MaxMarkets, Creators, QuestionLens, EndTimes(now), {TRUE})
    \/ Deposit({"alice", "bob"}, SpecIds, Amounts)
    \/ UpdatePosition({"alice"}, {"m1"}, Prices)
    \/ ResolveMarket(SpecIds)
    \/ CancelMarket(SpecIds)
    \/ Settle({"alice", "bob"}, SpecIds)

Spec == Init /\ [][Next]_vars

\* Long runs: enough markets are created for the id table of initialize_market
\* to run out; the other calls are driven on the market "m0".
NextLongRun ==
    \/ InitializeMarket(LongRunMarkets, {Admin}, {1}, EndTimes(now), {TRUE})
    \/ Deposit({"alice"}, {"m0"}, {MAX_DEPOSIT_AMOUNT})
    \/ UpdatePosition({"alice"}, {"m0"}, Prices)
    \/ ResolveMarket({"m0"})
    \/ Settle({"alice"}, {"m0"})

SpecLongRun == Init /\ [][NextLongRun]_vars

\* Market creation at several ledger times, with every kind of question and
\* end time, by the administrator and by another address, with and without
\* the authorization of the address named as creator; deposits into the
\* market created.
NextCreate ==
    \/ AdvanceLedger(MaxTime)
    \/ InitializeMarket(MaxCreated, Creators, CreateQuestionLens,
                        CreateEndTimes(now), BOOLEAN)
    \/ Deposit({"alice"}, {"m1"}, {MAX_DEPOSIT_AMOUNT})

SpecCreate == Init /\ [][NextCreate]_vars

\* Deposits by two users into two markets, and share updates at any price.
NextPositions ==
    \/ InitializeMarket(MaxCreated, {Admin}, {1}, {now + 1}, {TRUE})
    \/ Deposit({"alice"}, {"m1", "m2"}, {MAX_DEPOSIT_AMOUNT})
    \/ Deposit({"bob"}, {"m1"}, {MAX_DEPOSIT_AMOUNT})
    \/ UpdatePosition({"alice"}, {"m1"}, AnyPrices)

SpecPositions == Init /\ [][NextPositions]_vars

\* calculate_locked_collateral applied to its arguments: the call either
\* returns a value or panics on the unwrap of an overflowing checked_mul.
CalculateLockedCollateral(shares, prices) ==
    \E y \in shares, n \in shares, p \in prices :
        /\ last' = [NoCall EXCEPT
                        !.op = "calculate_locked_collateral",
                        !.yes_shares = y, !.no_shares = n, !.price = p,
                        !.result = IF calculate_locked_collateral_panics(y, n, p)
                                   THEN "Trap" ELSE "Ok",
                        !.ret = IF calculate_locked_collateral_panics(y, n, p)
                                THEN 0 ELSE calculate_locked_collateral(y, n, p)]
        /\ UNCHANGED <<markets, positions, counter, now>>

\* update_position with share counts whose product with the price overflows
NextOverflow ==
    \/ InitializeMarket(MaxMarkets, {Admin}, {1}, {now + 1}, {TRUE})
    \/ UpdatePositionBy({"alice", "bob"}, {"m1"}, LargeDeltas, OverflowPrices, LargeShares)

SpecOverflow == Init /\ [][NextOverflow]_vars

\* construct_oracle_message applied to the bytes of a market id and an outcome
ConstructOracleMessage(ids) ==
    \E id \in ids, outcome \in BOOLEAN :
        /\ last' = [NoCall EXCEPT
                        !.op = "construct_oracle_message",
                        !.id_bytes = id, !.outcome = outcome,
                        !.message = construct_oracle_message_bytes(id, outcome),
                        !.result = "Ok"]
        /\ UNCHANGED <<markets, positions, counter, now>>

NextMessage == ConstructOracleMessage(MessageIds)

SpecMessage == Init /\ [][NextMessage]_vars

NextFormula == CalculateLockedCollateral(FormulaShares, FormulaPrices)

SpecFormula == Init /\ [][NextFormula]_vars

(* Properties *)

Statuses == {"Active", "Resolved", "Canceled"}

RECURSIVE SumLocked(_, _)
SumLocked(ps, keys) ==
    IF keys = {} THEN 0
    ELSE LET k == CHOOSE x \in keys : TRUE
         IN ps[k].locked_collateral + SumLocked(ps, keys \ {k})

\* the locked collateral of all the positions of a market
LockedInMarket(market_id) ==
    SumLocked(positions, {k \in DOMAIN positions : k[1] = market_id})

StorageUnchanged == UNCHANGED <<markets, positions, counter>>

\* every occurrence of b in seq comes after an occurrence of a
Precedes(seq, a, b) ==
    \A j \in 1..Len(seq) : seq[j] = b => \E i \in 1..(j - 1) : seq[i] = a

Logged(seq, a) == \E i \in 1..Len(seq) : seq[i] = a

\* C1: a stored market stays stored, a market that is Resolved or Canceled
\* keeps its status in every later state, and the only status changes are
\* Active -> Resolved and Active -> Canceled.
C1_StatusOneWay ==
    [][\A id \in DOMAIN markets :
          /\ id \in DOMAIN markets'
          /\ markets[id].status # "Active"
                => markets'[id].status = markets[id].status
          /\ markets'[id].status # markets[id].status
                => markets'[id].status \in {"Resolved", "Canceled"}]_vars

\* C2: every stored market has a result exactly when its status is Resolved.
C2_ResultIffResolved ==
    \A id \in DOMAIN markets :
        markets[id].result.some <=> markets[id].status = "Resolved"

\* C2 witness: a resolve has just succeeded and the market holds the outcome,
\* while another stored market is still Active with no result.
C2_Witness ==
    /\ last.op = "resolve_market" /\ last.result = "Ok"
    /\ markets[last.mid].status = "Resolved"
    /\ markets[last.mid].result = Some(last.outcome)
    /\ \E id \in DOMAIN markets :
          markets[id].status = "Active" /\ ~markets[id].result.some

\* C3: a position that is settled stays settled, and every settle of a
\* settled position fails with PositionAlreadySettled and pays nothing.
C3_SettleOnce ==
    [][/\ \A k \in DOMAIN positions :
             positions[k].is_settled
                => k \in DOMAIN positions' /\ positions'[k].is_settled
       /\ (/\ last'.op = "settle"
           /\ <<last'.mid, last'.user>> \in DOMAIN positions
           /\ positions[<<last'.mid, last'.user>>].is_settled)
             => last'.result = "PositionAlreadySettled" /\ last'.ret = 0]_vars

\* C4: the locked collateral of the positions of a market never exceeds the
\* market's total_collateral (0 for a market that holds none).
C4_Conservation ==
    \A id \in DOMAIN markets :
        LockedInMarket(id) <= market_total_collateral(markets[id])

\* C5: a successful deposit of amount a raises the depositor's
\* locked_collateral (0 when there was no position) and the market's
\* total_collateral by exactly a.
C5_DepositAddsAmount ==
    [][(last'.op = "deposit_collateral" /\ last'.result = "Ok")
          => LET k == <<last'.mid, last'.user>>
                 before == IF k \in DOMAIN positions
                           THEN positions[k].locked_collateral ELSE 0
             IN /\ k \in DOMAIN positions'
                /\ positions'[k].locked_collateral = before + last'.amount
                /\ "total_collateral" \in DOMAIN markets'[last'.mid]
                /\ markets'[last'.mid].total_collateral
                      = market_total_collateral(markets[last'.mid]) + last'.amount]_vars

\* C5 witness: a deposit has succeeded on a position that already held
\* collateral, in a market that other deposits had reached too.
C5_Witness ==
    /\ last.op = "deposit_collateral" /\ last.result = "Ok"
    /\ positions[<<last.mid, last.user>>].locked_collateral > last.amount
    /\ markets[last.mid].total_collateral > last.amount

\* C6: in a deposit the position and the market are written only after the
\* token transfer has returned, and only when it succeeded; a deposit whose
\* transfer fails changes no position and no market.
C6_TransferBeforeWrites ==
    [][last'.op = "deposit_collateral"
          => /\ Precedes(last'.log, "transfer", "set_position")
             /\ Precedes(last'.log, "transfer", "set_market")
             /\ (markets' # markets \/ positions' # positions)
                   => Logged(last'.log, "transfer") /\ last'.transfer_ok
             /\ (Logged(last'.log, "transfer") /\ ~last'.transfer_ok)
                   => StorageUnchanged]_vars

\* C6 witness: a deposit reached the transfer, the transfer failed, and the
\* depositor has no position.
C6_Witness ==
    /\ last.op = "deposit_collateral" /\ last.result = "Trap"
    /\ Logged(last.log, "transfer") /\ ~last.transfer_ok
    /\ <<last.mid, last.user>> \notin DOMAIN positions

\* C7: a deposit (authorized, with an amount that passes the amount check)
\* into a market that is not stored fails with MarketNotFound, and into a
\* Resolved or Canceled market with MarketNotActive; no deposit into such a
\* market invokes the token transfer or changes a market or a position.
C7_DepositNeedsActiveMarket ==
    [][(/\ last'.op = "deposit_collateral"
        /\ (last'.mid \notin DOMAIN markets
               \/ markets[last'.mid].status \in {"Resolved", "Canceled"}))
          => /\ ~Logged(last'.log, "transfer")
             /\ StorageUnchanged
             /\ (last'.auth /\ last'.amount \in 1..MAX_DEPOSIT_AMOUNT)
                   => last'.result = (IF last'.mid \notin DOMAIN markets
                                      THEN "MarketNotFound"
                                      ELSE "MarketNotActive")]_vars

\* C7 witness: a deposit of a valid amount into a Canceled market has failed
\* with MarketNotActive.
C7_Witness ==
    /\ last.op = "deposit_collateral" /\ last.result = "MarketNotActive"
    /\ last.amount \in 1..MAX_DEPOSIT_AMOUNT
    /\ markets[last.mid].status = "Canceled"

\* C8: an authorized deposit with amount <= 0 or amount above the ceiling
\* fails with InvalidQuantity before the market is loaded, whatever the market
\* is, with no transfer and no state change; an amount in 1..ceiling does not
\* fail with InvalidQuantity.
C8_AmountCheckedFirst ==
    [][(last'.op = "deposit_collateral" /\ last'.auth)
          => /\ (last'.amount <= 0 \/ last'.amount > MAX_DEPOSIT_AMOUNT)
                   => /\ last'.result = "InvalidQuantity"
                      /\ ~Logged(last'.log, "get_market")
                      /\ ~Logged(last'.log, "transfer")
                      /\ StorageUnchanged
             /\ last'.amount \in 1..MAX_DEPOSIT_AMOUNT
                   => last'.result # "InvalidQuantity"]_vars

\* C8 witness: a deposit above the ceiling into a market that is not stored
\* has failed with InvalidQuantity.
C8_Witness ==
    /\ last.op = "deposit_collateral" /\ last.result = "InvalidQuantity"
    /\ last.amount > MAX_DEPOSIT_AMOUNT
    /\ last.mid \notin DOMAIN markets

C10_FreshMarketId ==
    [][(last'.op = "initialize_market" /\ last'.result = "Ok")
          => /\ last'.mid \notin DOMAIN markets
             /\ \A id \in DOMAIN markets :
                   id \in DOMAIN markets' /\ markets'[id] = markets[id]]_vars

\* C11: an initialize_market whose creator is not the administrator fails with
\* Unauthorized, whatever its question, end time and authorization are, stores
\* no market and leaves the market-id counter as it was.
C11_NonAdminUnauthorized ==
    [][(last'.op = "initialize_market" /\ last'.user # Admin)
          => /\ last'.result = "Unauthorized"
             /\ markets' = markets
             /\ counter' = counter]_vars

\* C11 witness: a creation by an address that is not the administrator, with
\* an empty question and an end time that is not in the future, has failed
\* with Unauthorized.
C11_Witness ==
    /\ last.op = "initialize_market" /\ last.user # Admin
    /\ last.result = "Unauthorized"
    /\ last.question = 0 /\ last.end_time <= now

\* C12: a deposit or a market creation that the address it names as acting
\* party (the depositor, the creator) did not authorize changes no market, no
\* position and not the counter.
C12_AuthBeforeMutation ==
    [][(last'.op \in {"deposit_collateral", "initialize_market"} /\ ~last'.auth)
          => StorageUnchanged]_vars

\* C13: after a successful initialize_market the market stored under the
\* returned id is Active with no result, total_collateral 0, created_at the
\* ledger time of the call, and the question, end time, oracle key, creator
\* and collateral token of the call.
C13_CreatedMarket ==
    [][(last'.op = "initialize_market" /\ last'.result = "Ok")
          => /\ last'.mid \in DOMAIN markets'
             /\ markets'[last'.mid] =
                   [id |-> last'.mid, question |-> last'.question,
                    end_time |-> last'.end_time, oracle_pubkey |-> OracleKey,
                    status |-> "Active", result |-> None, creator |-> last'.user,
                    created_at |-> now, collateral_token |-> Token,
                    total_collateral |-> 0]]_vars

SignatureVerifies(call) ==
    /\ call.mid \in DOMAIN markets
    /\ ed25519_verify(markets[call.mid].oracle_pubkey,
                      construct_oracle_message(call.mid, call.outcome), call.sig)

\* C15: a resolve of a market that is not stored fails with MarketNotFound, of
\* a Resolved market with MarketAlreadyResolved and of a Canceled market with
\* MarketNotActive, whether the signature verifies or not; it does so before
\* the signature is verified and changes nothing.
C15_MarketCheckedBeforeSignature ==
    [][last'.op = "resolve_market"
          => /\ last'.mid \notin DOMAIN markets => last'.result = "MarketNotFound"
             /\ (last'.mid \in DOMAIN markets /\ markets[last'.mid].status = "Resolved")
                   => last'.result = "MarketAlreadyResolved"
             /\ (last'.mid \in DOMAIN markets /\ markets[last'.mid].status = "Canceled")
                   => last'.result = "MarketNotActive"
             /\ (last'.mid \in DOMAIN markets => markets[last'.mid].status # "Active")
                   => ~Logged(last'.log, "ed25519_verify") /\ StorageUnchanged]_vars

\* C15 witness: a resolve of a Resolved market with a signature that does not
\* verify has failed with MarketAlreadyResolved.
C15_Witness ==
    /\ last.op = "resolve_market" /\ last.result = "MarketAlreadyResolved"
    /\ markets[last.mid].status = "Resolved"
    /\ ~SignatureVerifies(last)

\* C16: a market becomes Resolved only in a resolve call on that market whose
\* signature verifies under the market's oracle key over the message of that
\* market's id and the submitted outcome; a resolve whose signature does not
\* verify changes no market.
C16_ResolvedOnlyBySignature ==
    [][/\ \A id \in DOMAIN markets' :
             (/\ markets'[id].status = "Resolved"
              /\ (id \in DOMAIN markets => markets[id].status # "Resolved"))
                => /\ last'.op = "resolve_market" /\ last'.mid = id
                   /\ SignatureVerifies(last')
                   /\ markets'[id].result = Some(last'.outcome)
       /\ (last'.op = "resolve_market" /\ ~SignatureVerifies(last'))
             => markets' = markets]_vars

\* C16 witness: a resolve of an Active market with a signature made with
\* another key over the right message has failed, and the market is Active
\* with no result.
C16_Witness ==
    /\ last.op = "resolve_market" /\ last.result # "Ok"
    /\ last.sig = Sign(OtherKey, construct_oracle_message(last.mid, last.outcome))
    /\ last.mid \in DOMAIN markets
    /\ markets[last.mid].status = "Active" /\ markets[last.mid].result = None

\* C17: a resolve of an Active market with a signature that does not verify
\* returns the error InvalidSignature.
C17_InvalidSignatureReturned ==
    [][(/\ last'.op = "resolve_market"
        /\ last'.mid \in DOMAIN markets
        /\ markets[last'.mid].status = "Active"
        /\ ~SignatureVerifies(last'))
          => last'.result = "InvalidSignature"]_vars

\* C18: a resolve of an Active market with a signature that verifies for the
\* outcome o succeeds, stores status Resolved and result Some(o) together and
\* emits the MarketResolved event with o; a stored result stays what it is in
\* every later state.
C18_ResolveSetsResult ==
    [][/\ (/\ last'.op = "resolve_market"
            /\ last'.mid \in DOMAIN markets
            /\ markets[last'.mid].status = "Active"
            /\ SignatureVerifies(last'))
             => /\ last'.result = "Ok"
                /\ markets'[last'.mid].status = "Resolved"
                /\ markets'[last'.mid].result = Some(last'.outcome)
                /\ Logged(last'.log, emit_market_resolved(last'.outcome))
       /\ \A id \in DOMAIN markets :
             markets[id].result.some
                => id \in DOMAIN markets' /\ markets'[id].result = markets[id].result]_vars

\* C19: a settle fails with MarketNotResolved when the market is not Resolved
\* (also when the position is settled already), otherwise with NoPositionFound
\* when the user has no position in the market, otherwise with
\* PositionAlreadySettled when the position is settled, and succeeds in every
\* other case; a settle that fails leaves every position as it was.
C19_SettleEligibility ==
    [][last'.op = "settle"
          => LET k == <<last'.mid, last'.user>>
                 resolved == /\ last'.mid \in DOMAIN markets
                             /\ markets[last'.mid].status = "Resolved"
             IN /\ last'.result =
                      (IF ~resolved THEN "MarketNotResolved"
                       ELSE IF k \notin DOMAIN positions THEN "NoPositionFound"
                       ELSE IF positions[k].is_settled THEN "PositionAlreadySettled"
                       ELSE "Ok")
                /\ last'.result # "Ok" => positions' = positions]_vars

\* C19 witness: a settle of a position that is settled already, in a market
\* that is not Resolved, has failed with MarketNotResolved.
C19_Witness ==
    /\ last.op = "settle" /\ last.result = "MarketNotResolved"
    /\ <<last.mid, last.user>> \in DOMAIN positions
    /\ positions[<<last.mid, last.user>>].is_settled
    /\ last.mid \in DOMAIN markets /\ markets[last.mid].status = "Active"

\* C20: a successful settle returns the yes_shares of the position when the
\* result of the market is true and its no_shares when it is false; for a
\* position of 100 YES and 30 NO shares the payout is 100 on true and 30 on
\* false.
C20_PayoutIsWinningShares ==
    [][(last'.op = "settle" /\ last'.result = "Ok")
          => LET position == positions[<<last'.mid, last'.user>>]
                 example == [NewPosition(last'.mid, last'.user) EXCEPT
                                !.yes_shares = 100, !.no_shares = 30]
             IN /\ markets[last'.mid].result = Some(TRUE)
                      => last'.ret = position.yes_shares
                /\ markets[last'.mid].result = Some(FALSE)
                      => last'.ret = position.no_shares
                /\ calculate_payout(example, TRUE) = 100
                /\ calculate_payout(example, FALSE) = 30]_vars

\* C20 witness: a position holding YES shares only has been settled in a
\* market whose result is false, and the payout is 0.
C20_Witness ==
    /\ last.op = "settle" /\ last.result = "Ok"
    /\ markets[last.mid].result = Some(FALSE)
    /\ positions[<<last.mid, last.user>>].yes_shares > 0
    /\ positions[<<last.mid, last.user>>].no_shares = 0
    /\ last.ret = 0

\* C21: for every stored position whose market is stored,
\* calculate_potential_payout is None when the market is Active or Canceled and
\* Some(p) when it is Resolved, where p is the payout a settle of the position
\* returns (for a position not settled yet, the payout of the settle that
\* succeeds in this state).
C21_PotentialPayout ==
    \A k \in DOMAIN positions :
        k[1] \in DOMAIN markets
          => LET preview == calculate_potential_payout(positions[k], markets[k[1]])
                 settled == settle(markets, positions, counter, k[1], k[2])
             IN /\ markets[k[1]].status # "Resolved"
                      => preview = [some |-> FALSE, value |-> 0]
                /\ markets[k[1]].status = "Resolved"
                      => /\ preview.some
                         /\ ~positions[k].is_settled
                               => settled.result = "Ok" /\ preview.value = settled.ret

\* C21 witness: a Resolved market holds a position that is not settled and
\* whose preview is Some(1), the payout of its one winning share.
C21_Witness ==
    \E k \in DOMAIN positions :
        /\ k[1] \in DOMAIN markets /\ markets[k[1]].status = "Resolved"
        /\ ~positions[k].is_settled
        /\ calculate_potential_payout(positions[k], markets[k[1]])
              = [some |-> TRUE, value |-> 1]

\* C22: an update_position in which yes_shares + yes_delta or
\* no_shares + no_delta is negative fails with InvalidShareAmount and changes
\* nothing; after every step every position has yes_shares >= 0 and
\* no_shares >= 0.
C22_SharesNonNegative ==
    [][/\ last'.op = "update_position"
             => LET position == get_position_or_default(positions, last'.mid,
                                                        last'.user)
                IN (\/ position.yes_shares + last'.yes_delta < 0
                    \/ position.no_shares + last'.no_delta < 0)
                      => last'.result = "InvalidShareAmount" /\ StorageUnchanged
       /\ \A k \in DOMAIN positions' :
             positions'[k].yes_shares >= 0 /\ positions'[k].no_shares >= 0]_vars

\* C22 witness: an update_position taking a NO share from a position that
\* holds YES shares and no NO share has failed with InvalidShareAmount.
C22_Witness ==
    /\ last.op = "update_position" /\ last.result = "InvalidShareAmount"
    /\ last.no_delta < 0
    /\ <<last.mid, last.user>> \in DOMAIN positions
    /\ positions[<<last.mid, last.user>>].yes_shares > 0
    /\ positions[<<last.mid, last.user>>].no_shares = 0

\* C23: a successful update_position stores a position whose yes_shares and
\* no_shares are those held before (0 and 0, not settled, when there was no
\* position) plus the deltas, and whose locked_collateral, returned with the
\* position, is calculate_locked_collateral of the new shares and the price; 100 YES at
\* 6000 on a new position locks 60, and 30 NO more at 6000 locks 42.
C23_UpdateAppliesDeltas ==
    [][(last'.op = "update_position" /\ last'.result = "Ok")
          => LET k == <<last'.mid, last'.user>>
                 old == get_position_or_default(positions, last'.mid, last'.user)
                 first == update_position(<< >>, << >>, 0, "m1", "alice", 100, 0, 6000)
                 second == update_position(first.markets, first.positions, 0,
                                           "m1", "alice", 0, 30, 6000)
             IN /\ k \in DOMAIN positions'
                /\ positions'[k].yes_shares = old.yes_shares + last'.yes_delta
                /\ positions'[k].no_shares = old.no_shares + last'.no_delta
                /\ positions'[k].is_settled = old.is_settled
                /\ positions'[k].locked_collateral =
                      calculate_locked_collateral(positions'[k].yes_shares,
                                                  positions'[k].no_shares,
                                                  last'.price)
                /\ last'.ret = positions'[k].locked_collateral
                /\ first.result = "Ok" /\ first.ret = 60
                /\ second.result = "Ok" /\ second.ret = 42
                /\ second.positions[<<"m1", "alice">>].yes_shares = 100
                /\ second.positions[<<"m1", "alice">>].no_shares = 30]_vars

\* C23 witness: an update_position adding a NO share at the price 10000 to a
\* position holding a YES share has succeeded; the position is hedged and
\* locks 0.
C23_Witness ==
    /\ last.op = "update_position" /\ last.result = "Ok"
    /\ last.no_delta = 1 /\ last.price = BASIS_POINTS
    /\ positions[<<last.mid, last.user>>].yes_shares = 1
    /\ positions[<<last.mid, last.user>>].no_shares = 1
    /\ positions[<<last.mid, last.user>>].locked_collateral = 0

\* The locked collateral as the formula states it: the net exposure times the
\* price of its side, divided by 10000 and rounded down.
FormulaValue(y, n, p) ==
    IF y >= n THEN ((y - n) * p) \div BASIS_POINTS
    ELSE ((n - y) * (BASIS_POINTS - p)) \div BASIS_POINTS

\* The product the formula divides.
FormulaProduct(y, n, p) ==
    IF y >= n THEN (y - n) * p ELSE (n - y) * (BASIS_POINTS - p)

\* C24 (as stated): for all non-negative share counts and every price from
\* 0 to 10000, calculate_locked_collateral returns the formula's value.
C24_FormulaAsStated ==
    (/\ last.op = "calculate_locked_collateral"
     /\ last.yes_shares >= 0 /\ last.no_shares >= 0
     /\ last.price >= 0 /\ last.price <= BASIS_POINTS)
       => /\ last.result = "Ok"
          /\ last.ret = FormulaValue(last.yes_shares, last.no_shares, last.price)

\* C24 (amended): for all non-negative share counts and every price from
\* 0 to 10000, calculate_locked_collateral returns the formula's value when
\* the product of the net exposure and the side's price fits the integer
\* type, and panics when it does not.
C24_FormulaWithinRange ==
    (/\ last.op = "calculate_locked_collateral"
     /\ last.yes_shares >= 0 /\ last.no_shares >= 0
     /\ last.price >= 0 /\ last.price <= BASIS_POINTS)
       => IF FormulaProduct(last.yes_shares, last.no_shares, last.price) <= I128_MAX
          THEN /\ last.result = "Ok"
               /\ last.ret = FormulaValue(last.yes_shares, last.no_shares, last.price)
          ELSE last.result = "Trap"

\* C24 witness: 100 YES and 30 NO shares at the price 5000 gave 35.
C24_Witness ==
    /\ last.op = "calculate_locked_collateral" /\ last.result = "Ok"
    /\ last.yes_shares = 100 /\ last.no_shares = 30 /\ last.price = 5000
    /\ last.ret = 35

\* C25: for all share counts y, n and every price p,
\* calculate_locked_collateral(y, n, p) and
\* calculate_locked_collateral(n, y, 10000 - p) have the same outcome: the
\* same value, or both panic.
C25_Symmetry ==
    last.op = "calculate_locked_collateral"
       => LET y == last.yes_shares
              n == last.no_shares
              p == last.price
          IN /\ calculate_locked_collateral_panics(n, y, BASIS_POINTS - p)
                   <=> last.result = "Trap"
             /\ last.result = "Ok"
                   => calculate_locked_collateral(n, y, BASIS_POINTS - p) = last.ret

\* C25 witness: 100 NO shares at the price 6000 gave 40, which is what 100 YES
\* shares give at the price 4000.
C25_Witness ==
    /\ last.op = "calculate_locked_collateral" /\ last.result = "Ok"
    /\ last.yes_shares = 0 /\ last.no_shares = 100 /\ last.price = 6000
    /\ last.ret = 40
    /\ calculate_locked_collateral(100, 0, BASIS_POINTS - 6000) = 40

\* C26: with equal YES and NO share counts calculate_locked_collateral
\* returns 0 at every price, a price outside 0..10000 included.
C26_HedgedLocksNothing ==
    (/\ last.op = "calculate_locked_collateral"
     /\ last.yes_shares = last.no_shares)
       => last.result = "Ok" /\ last.ret = 0

\* C26 witness: the largest share count on both sides at a price above 10000
\* gave 0.
C26_Witness ==
    /\ last.op = "calculate_locked_collateral" /\ last.result = "Ok"
    /\ last.yes_shares = LargeShares /\ last.no_shares = LargeShares
    /\ last.price > BASIS_POINTS
    /\ last.ret = 0

\* C27: in every reachable state every position's locked_collateral is
\* non-negative, whatever prices the update_position calls were given.
C27_LockedNonNegative ==
    \A k \in DOMAIN positions : positions[k].locked_collateral >= 0

\* C28: a position's locked_collateral is the formula's value for its shares
\* and the price of its most recent share update: a step changes it only as a
\* successful update_position of that position, to the formula's value at the
\* price of that update, and a position created by any other step locks 0.
C28_LockedFollowsFormula ==
    [][\A k \in DOMAIN positions' :
          LET updated == /\ last'.op = "update_position" /\ last'.result = "Ok"
                         /\ k = <<last'.mid, last'.user>>
          IN /\ updated
                   => positions'[k].locked_collateral =
                        FormulaValue(positions'[k].yes_shares,
                                     positions'[k].no_shares, last'.price)
             /\ (~updated /\ k \in DOMAIN positions)
                   => positions'[k].locked_collateral = positions[k].locked_collateral
             /\ (~updated /\ k \notin DOMAIN positions)
                   => positions'[k].locked_collateral = 0]_vars

\* C29: a deposit by a user into a market changes no position other than
\* that user's position in that market and no market record other than that
\* market's, of which it changes the total_collateral only; it creates no
\* other position or market.
C29_DepositScoped ==
    [][last'.op = "deposit_collateral"
          => /\ \A k \in DOMAIN positions :
                   k # <<last'.mid, last'.user>>
                     => k \in DOMAIN positions' /\ positions'[k] = positions[k]
             /\ DOMAIN positions' \subseteq DOMAIN positions \cup {<<last'.mid, last'.user>>}
             /\ DOMAIN markets' = DOMAIN markets
             /\ \A id \in DOMAIN markets :
                   IF id # last'.mid
                   THEN markets'[id] = markets[id]
                   ELSE with_total_collateral(markets'[id], 0)
                          = with_total_collateral(markets[id], 0)
             /\ counter' = counter]_vars

\* C29 witness: alice's deposit into m2 has succeeded while she holds
\* collateral in m1 and bob holds collateral in m1.
C29_Witness ==
    /\ last.op = "deposit_collateral" /\ last.result = "Ok"
    /\ last.user = "alice" /\ last.mid = "m2"
    /\ <<"m1", "alice">> \in DOMAIN positions
    /\ positions[<<"m1", "alice">>].locked_collateral > 0
    /\ <<"m1", "bob">> \in DOMAIN positions
    /\ positions[<<"m1", "bob">>].locked_collateral > 0
    /\ positions[<<"m2", "alice">>].locked_collateral = last.amount

\* C30: a deposit that passes its checks and whose amount added to the
\* position's locked_collateral or to the market's total_collateral exceeds
\* the integer maximum fails with ArithmeticOverflow and changes nothing;
\* otherwise it succeeds; no deposit lowers either field or leaves a value
\* above the integer maximum in it.
C30_DepositOverflowChecked ==
    [][last'.op = "deposit_collateral"
          => /\ (/\ last'.auth /\ last'.transfer_ok
                 /\ last'.amount > 0 /\ last'.amount <= MAX_DEPOSIT_AMOUNT
                 /\ last'.mid \in DOMAIN markets
                 /\ markets[last'.mid].status = "Active")
                   => LET old == IF <<last'.mid, last'.user>> \in DOMAIN positions
                                 THEN positions[<<last'.mid, last'.user>>].locked_collateral
                                 ELSE 0
                          total == market_total_collateral(markets[last'.mid])
                      IN IF old + last'.amount > I128_MAX \/ total + last'.amount > I128_MAX
                         THEN last'.result = "ArithmeticOverflow" /\ StorageUnchanged
                         ELSE last'.result = "Ok"
             /\ \A k \in DOMAIN positions' :
                   /\ positions'[k].locked_collateral <= I128_MAX
                   /\ k \in DOMAIN positions
                         => positions'[k].locked_collateral >= positions[k].locked_collateral
             /\ \A id \in DOMAIN markets' :
                   /\ market_total_collateral(markets'[id]) <= I128_MAX
                   /\ id \in DOMAIN markets
                         => market_total_collateral(markets'[id])
                              >= market_total_collateral(markets[id])]_vars

\* C30 witness: a deposit has failed with ArithmeticOverflow on the addition
\* to the position's locked_collateral, which is above the integer maximum
\* less the amount.
C30_Witness ==
    /\ last.op = "deposit_collateral" /\ last.result = "ArithmeticOverflow"
    /\ <<last.mid, last.user>> \in DOMAIN positions
    /\ positions[<<last.mid, last.user>>].locked_collateral + last.amount > I128_MAX

\* C31: an update_position whose new share counts are valid and whose product
\* of the net exposure and the side's price leaves the integer range returns
\* ArithmeticOverflow.
C31_OverflowReported ==
    [][last'.op = "update_position"
          => LET position == get_position_or_default(positions, last'.mid, last'.user)
                 new_yes == position.yes_shares + last'.yes_delta
                 new_no == position.no_shares + last'.no_delta
             IN (/\ new_yes >= 0 /\ new_no >= 0
                 /\ FormulaProduct(new_yes, new_no, last'.price) > I128_MAX)
                   => last'.result = "ArithmeticOverflow"]_vars

\* C32: for non-negative shares and a price from 0 to 10000, a result L of
\* calculate_locked_collateral satisfies L * 10000 <= net * q < (L + 1) * 10000
\* where net is the difference of the shares and q the price of the larger
\* side.
C32_TruncationBounded ==
    (/\ last.op = "calculate_locked_collateral" /\ last.result = "Ok"
     /\ last.yes_shares >= 0 /\ last.no_shares >= 0
     /\ last.price >= 0 /\ last.price <= BASIS_POINTS)
       => LET net == IF last.yes_shares > last.no_shares
                     THEN last.yes_shares - last.no_shares
                     ELSE last.no_shares - last.yes_shares
              q == IF last.yes_shares > last.no_shares
                   THEN last.price ELSE BASIS_POINTS - last.price
          IN /\ last.ret * BASIS_POINTS <= net * q
             /\ net * q < (last.ret + 1) * BASIS_POINTS

\* C32 witness: one YES share at the price 6000 gave 0, less than the 0.6 of
\* the exact quotient.
C32_Witness ==
    /\ last.op = "calculate_locked_collateral" /\ last.result = "Ok"
    /\ last.yes_shares = 1 /\ last.no_shares = 0 /\ last.price = 6000
    /\ last.ret = 0

\* C33: the message of a market id and an outcome is that of another id and
\* outcome exactly when the two ids and the two outcomes are equal, so a
\* signature made over it with the oracle key verifies under that key for no
\* other id and for no other outcome.
C33_MessageBinds ==
    last.op = "construct_oracle_message"
      => \A id \in MessageIds, outcome \in BOOLEAN :
            /\ construct_oracle_message_bytes(id, outcome) = last.message
                  <=> (id = last.id_bytes /\ outcome = last.outcome)
            /\ ed25519_verify(OracleKey, construct_oracle_message_bytes(id, outcome),
                              Sign(OracleKey, last.message))
                  <=> (id = last.id_bytes /\ outcome = last.outcome)

\* C33 witness: the message of the id "m" followed by the byte 1, for NO; its
\* bytes before the outcome byte are the message bytes of the id "m" for YES.
C33_Witness ==
    /\ last.op = "construct_oracle_message"
    /\ last.id_bytes = <<109, 1>> /\ ~last.outcome
    /\ last.message = keccak256(<<109, 1, 0>>)

\* C34: the payouts of the successful settles of a market never exceed the
\* market's total_collateral in sum; in particular the payout a successful
\* settle returns does not exceed the total_collateral of its market.
C34_SettlementSolvent ==
    [][(last'.op = "settle" /\ last'.result = "Ok")
          => last'.ret <= market_total_collateral(markets'[last'.mid])]_vars

\* C35: the yes_shares and no_shares of a settled position are the same after
\* every step.
C35_SettledSharesFrozen ==
    [][\A k \in DOMAIN positions :
          positions[k].is_settled
            => /\ k \in DOMAIN positions'
               /\ positions'[k].yes_shares = positions[k].yes_shares
               /\ positions'[k].no_shares = positions[k].no_shares]_vars

\* C36: in every reachable state the market of a settled position is stored
\* and Resolved.
C36_SettledInResolvedMarket ==
    \A k \in DOMAIN positions :
        positions[k].is_settled
          => k[1] \in DOMAIN markets /\ markets[k[1]].status = "Resolved"

\* C37: a successful settle sets is_settled of the settled position and
\* changes nothing else: the position's other fields, the other positions,
\* the markets and the counter are as before; a failed settle changes nothing.
C37_SettleChangesFlagOnly ==
    [][last'.op = "settle"
          => IF last'.result = "Ok"
             THEN LET k == <<last'.mid, last'.user>>
                  IN /\ k \in DOMAIN positions
                     /\ positions' = [positions EXCEPT ![k].is_settled = TRUE]
                     /\ ~positions[k].is_settled
                     /\ markets' = markets /\ counter' = counter
             ELSE StorageUnchanged]_vars

\* C37 witness: a settle has succeeded on a position that holds a share and
\* locked collateral, with another position stored and collateral in the
\* market.
C37_Witness ==
    /\ last.op = "settle" /\ last.result = "Ok"
    /\ positions[<<last.mid, last.user>>].is_settled
    /\ positions[<<last.mid, last.user>>].yes_shares > 0
    /\ positions[<<last.mid, last.user>>].locked_collateral > 0
    /\ market_total_collateral(markets[last.mid]) > 0
    /\ \E k \in DOMAIN positions : k # <<last.mid, last.user>>

\* C38: on every market and position, whatever the status, the result and the
\* is_settled flag, can_settle is true exactly when
\* validate_settlement_eligibility is Ok; and for every stored position and
\* its stored market, when can_settle is true execute_settlement succeeds.
C38_CanSettleIsEligibility ==
    /\ \A k \in DOMAIN positions, id \in DOMAIN markets :
          \A status \in Statuses, result \in {None, Some(TRUE), Some(FALSE)},
             settled \in BOOLEAN :
             LET market == [markets[id] EXCEPT !.status = status, !.result = result]
                 position == [positions[k] EXCEPT !.is_settled = settled]
             IN can_settle(position, market)
                  <=> validate_settlement_eligibility(position, market) = "Ok"
    /\ \A k \in DOMAIN positions :
          (k[1] \in DOMAIN markets /\ can_settle(positions[k], markets[k[1]]))
            => execute_settlement(positions[k], markets[k[1]]).result = "Ok"

\* C38 witness: a Resolved market holds a settled position, on which
\* can_settle is false, and an unsettled one, on which it is true.
C38_Witness ==
    \E k1 \in DOMAIN positions, k2 \in DOMAIN positions :
        /\ k1[1] = k2[1] /\ k1[1] \in DOMAIN markets
        /\ markets[k1[1]].status = "Resolved"
        /\ positions[k1].is_settled /\ ~can_settle(positions[k1], markets[k1[1]])
        /\ can_settle(positions[k2], markets[k2[1]])

\* C39: a successful initialize_market raises the counter by one and returns
\* the id of the new counter value n, "m" followed by n; no other step
\* changes the counter, get_next_market_id reads it, and it starts at 0.
C39_SequentialIds ==
    [][/\ (last'.op = "initialize_market" /\ last'.result = "Ok")
             => /\ counter' = counter + 1
                /\ last'.ret = counter'
                /\ last'.mid = "m" \o ToString(counter')
       /\ ~(last'.op = "initialize_market" /\ last'.result = "Ok")
             => counter' = counter
       /\ get_next_market_id(counter') = counter'
       /\ counter' >= counter]_vars

\* C40: the log of a successful deposit holds exactly one collateral-deposited
\* event, which carries the depositor, the market id, the amount and the
\* locked_collateral of the depositor's position after the deposit; the log
\* of a failed deposit holds no event.
C40_DepositEvent ==
    [][last'.op = "deposit_collateral"
          => LET steps == {"require_auth", "get_market", "transfer", "get_position",
                           "set_position", "set_market"}
                 events == {i \in 1..Len(last'.log) : last'.log[i] \notin steps}
             IN IF last'.result = "Ok"
                THEN /\ Cardinality(events) = 1
                     /\ \A i \in events :
                          last'.log[i] =
                            emit_collateral_deposited(
                                last'.user, last'.mid, last'.amount,
                                positions'[<<last'.mid, last'.user>>].locked_collateral)
                ELSE events = {}]_vars

\* C40 witness: a deposit has succeeded into a market holding another user's
\* collateral, so that the depositor's locked_collateral is not the market's
\* total.
C40_Witness ==
    /\ last.op = "deposit_collateral" /\ last.result = "Ok"
    /\ Logged(last.log, emit_collateral_deposited(last.user, last.mid, last.amount, last.ret))
    /\ positions[<<last.mid, last.user>>].locked_collateral
          # market_total_collateral(markets[last.mid])

====
